---- MODULE Spec2Model ----
(***************************************************************************)
(* Model of src/main.py: a service that periodically copies one secret     *)
(* bundle from GCP Secret Manager into one Kubernetes Secret.              *)
(*                                                                         *)
(* Strings are sequences of one-character strings.  The destination        *)
(* object is the Kubernetes Secret named by settings.k8s_secret_name; its  *)
(* content is its decoded data map.                                        *)
(***************************************************************************)
EXTENDS Integers, Sequences, FiniteSets, TLC

(***************************************************************************)
(* Bounds of the model.                                                    *)
(***************************************************************************)
\* largest number of entries of a fetched bundle
MaxBundle == 2
\* direct calls of update_k8s_secret made by the sink harness
MaxCalls == 2
\* longest key handed to normalize_secret_key by the normalizer harness
MaxKeyLen == 3

(***************************************************************************)
(* Characters.  A character outside 7-bit ASCII is written by its name.    *)
(***************************************************************************)
AsciiLetters == {"A", "B", "C", "D", "E", "I", "K", "L", "N", "V", "Y", "e", "f", "i"}
AsciiDigits == {"7"}
\* the characters re.sub(r'[^a-zA-Z0-9._-]', ...) keeps
ValidChars == AsciiLetters \cup AsciiDigits \cup {".", "_", "-"}
\* 7-bit characters that the Kubernetes key grammar rejects
OtherAscii == {" ", "!"}
Ascii == ValidChars \cup OtherAscii
\* e-acute, capital dotted I, dotless i, the ligature fi, Cyrillic zhe, and the
\* two combining marks
NonAscii == {"e_acute", "I_dotted", "i_dotless", "fi_ligature", "zhe",
             "comb_acute", "comb_dot"}

\* unicodedata.normalize('NFKD', c) of one character
Decompose(c) ==
    CASE c = "e_acute" -> <<"e", "comb_acute">>
      [] c = "I_dotted" -> <<"I", "comb_dot">>
      [] c = "fi_ligature" -> <<"f", "i">>
      [] OTHER -> <<c>>

RECURSIVE NFKD(_)
NFKD(key) ==
    IF key = <<>> THEN <<>> ELSE Decompose(Head(key)) \o NFKD(Tail(key))

IsAscii(c) == c \in Ascii

\* normalized.encode('ascii', 'ignore').decode('ascii')
AsciiIgnore(s) == SelectSeq(s, IsAscii)

\* re.sub(r'[^a-zA-Z0-9._-]', '_', ascii_key)
ReplaceInvalidKeeps(s) == s
ReplaceInvalid(s) == [i \in DOMAIN s |-> IF s[i] \in ValidChars THEN s[i] ELSE "_"]

\* re.sub(r'_+', '_', valid_key)
RECURSIVE CollapseUnderscores(_)
CollapseUnderscores(s) ==
    IF Len(s) < 2 THEN s
    ELSE IF s[1] = "_" /\ s[2] = "_" THEN CollapseUnderscores(Tail(s))
    ELSE <<s[1]>> \o CollapseUnderscores(Tail(s))

RECURSIVE LStrip(_)
LStrip(s) ==
    IF s # <<>> /\ Head(s) \in {"_", "."} THEN LStrip(Tail(s)) ELSE s

RECURSIVE RStrip(_)
RStrip(s) ==
    IF s # <<>> /\ s[Len(s)] \in {"_", "."} THEN RStrip(SubSeq(s, 1, Len(s) - 1)) ELSE s

\* valid_key.strip('_.')
StripOnce(s) ==
    LET t == IF s # <<>> /\ Head(s) \in {"_", "."} THEN Tail(s) ELSE s
    IN IF t # <<>> /\ t[Len(t)] \in {"_", "."} THEN SubSeq(t, 1, Len(t) - 1) ELSE t
Strip(s) == RStrip(LStrip(s))

INVALID_KEY == <<"I", "N", "V", "A", "L", "I", "D", "_", "K", "E", "Y">>

\* lines 125-134: valid_key as it stands before the fallback of line 136
valid_key(key) ==
    LET normalized == NFKD(key)
        ascii_key == AsciiIgnore(normalized)
    IN Strip(CollapseUnderscores(ReplaceInvalid(ascii_key)))

normalize_secret_key(key) ==
    IF valid_key(key) = <<>> THEN INVALID_KEY ELSE valid_key(key)

\* the keys the normalizer harness tries: every string up to MaxKeyLen over
\* these characters, and the text of the fallback itself
KeyChars == {"A", "7", "_", ".", "-", " ", "!", "e_acute", "I_dotted", "i_dotless",
             "fi_ligature", "zhe"}
Keys == UNION {[1..n -> KeyChars] : n \in 0..MaxKeyLen} \cup {INVALID_KEY}

(***************************************************************************)
(* Bundles.  json.loads gives a dict (insertion ordered, distinct keys), a *)
(* list, a string or a number.  A dict is the sequence of its items.       *)
(***************************************************************************)
\* the source keys the model feeds to the service
SourceKeys == {<<"A">>, <<"B">>, <<"B", "!">>}

StrValue(s) == [kind |-> "str", s |-> s, n |-> 0]
IntValue(n) == [kind |-> "int", s |-> "", n |-> n]
\* JSON values of a bundle: a string and a number
Values == {StrValue("x"), IntValue(7)}

\* str(value)
str(value) == IF value.kind = "str" THEN value.s ELSE ToString(value.n)

DistinctKeys(items) ==
    \A i, j \in DOMAIN items : i # j => items[i][1] # items[j][1]

ItemSeqs ==
    UNION {{items \in [1..n -> SourceKeys \X Values] : DistinctKeys(items)} : n \in 0..MaxBundle}

Dicts == {[kind |-> "dict", items |-> items] : items \in ItemSeqs}
\* a well-formed JSON document whose top level is a list (it has a len())
JsonList == [kind |-> "list", items |-> <<>>]
\* a well-formed JSON document whose top level is a string (it has a len())
JsonString == [kind |-> "string", items |-> <<>>]
NoSecrets == [kind |-> "none", items |-> <<>>]

EmptyData == [k \in {} |-> ""]

\* the loop of lines 148-153: later items overwrite earlier ones
RECURSIVE StringDataFirstWins(_)
StringDataFirstWins(items) ==
    IF items = <<>> THEN EmptyData
    ELSE (normalize_secret_key(Head(items)[1]) :> str(Head(items)[2]))
             @@ StringDataFirstWins(Tail(items))
RECURSIVE StringData(_)
StringData(items) ==
    IF items = <<>> THEN EmptyData
    ELSE LET n == Len(items)
             normalized_key == normalize_secret_key(items[n][1])
         IN (normalized_key :> str(items[n][2])) @@ StringData(SubSeq(items, 1, n - 1))

(***************************************************************************)
(* The destination object and the sink API (CoreV1Api) acting on it.       *)
(***************************************************************************)
NoObject == [exists |-> FALSE, data |-> EmptyData]

\* normalized keys and string values that an object of the model can hold
DestKeys == {normalize_secret_key(k) : k \in SourceKeys}
DestValues == {str(v) : v \in Values}
DestObjects ==
    {NoObject} \cup
    UNION {{[exists |-> TRUE, data |-> d] : d \in [K -> DestValues]} : K \in SUBSET DestKeys}

\* What patch_namespaced_secret(body=existing_secret) leaves in the object.
\* The body is the object that was read with string_data set and data = None;
\* the client omits a None field when it serializes the body and sends a merge
\* patch, so the stored data map is not cleared and the API server writes the
\* stringData entries over it.
PatchedDataKeepsOld(data, string_data) == data @@ string_data
PatchedData(data, string_data) == string_data @@ data

\* What create_namespaced_secret(body=secret_body) stores
CreatedDataEmpty(string_data) == EmptyData
CreatedData(string_data) == string_data

(***************************************************************************)
(* State.                                                                  *)
(***************************************************************************)
\* the coroutines that call sync_secrets: the periodic task, two requests to
\* /api/sync, and a direct caller of the module's functions
Manuals == {"m1", "m2"}
Callers == {"sched", "t"} \cup Manuals

Apis == {"fetch", "read", "patch", "create"}
\* how often each remote call was issued, and what the last one answered
NoCalls == [n |-> [a \in Apis |-> 0], answer |-> [a \in Apis |-> "none"]]

FetchErrors == {"SourceUnavailable", "SourceFetchError", "SourceDecodeError"}

VARIABLES
    secret_client,    \* global secret_client is set
    k8s_core_v1,      \* global k8s_core_v1 is set
    sync_task,        \* global sync_task and where periodic_sync stands
    cancel_requested, \* sync_task.cancel() was called
    timer_fired,      \* the asyncio.sleep of periodic_sync has expired
    last_result,      \* what the task's previous call of sync_secrets returned, or
                      \* "raised"
    lifespan_pc,      \* where lifespan stands
    api_token,        \* settings.api_token
    loop,             \* the coroutine the event loop thread is running
    pc,               \* per caller: where its sync_secrets call stands
    secrets,          \* per caller: local secrets of sync_secrets
    string_data,      \* per caller: local string_data of update_k8s_secret
    calls,            \* per caller: remote calls issued by the call in progress
    err,              \* per caller: the exception raised in the call in progress
    result,           \* per caller: what sync_secrets returned
    request,          \* per request: the Authorization header of a received request
    status,           \* per request (m1, m2, and hc for /api/health): status code and
                      \* detail of the response being sent
    dest,             \* the destination object
    h                 \* the direct caller's record of its calls

vars == <<secret_client, k8s_core_v1, sync_task, cancel_requested, timer_fired,
          last_result, lifespan_pc, api_token, loop, pc, secrets, string_data, calls, err,
          result, request, status, dest, h>>

appVars == <<secret_client, k8s_core_v1, sync_task, cancel_requested, timer_fired,
             last_result, lifespan_pc, api_token, request, status>>
cycleVars == <<pc, secrets, string_data, calls, err, result>>

(***************************************************************************)
(* The event loop.  fetch_gcp_secret and update_k8s_secret are coroutines  *)
(* without an await of their own: the client calls at lines 102, 157, 166  *)
(* and 184 are plain blocking calls, so a coroutine keeps the event loop   *)
(* thread from the start of sync_secrets to its return.                    *)
(***************************************************************************)
InCycle(p) == pc[p] \notin {"idle", "gate", "respond"}

\* who holds the event loop thread after a client call made by p
LoopAfterCallYields(p) == "free"
LoopAfterCall(p) == p

\* p may execute its next statement
Runs(p) == loop = p \/ (loop = "free" /\ InCycle(p))

Called(p, api, answer) ==
    [calls EXCEPT ![p] = [n |-> [@.n EXCEPT ![api] = @ + 1],
                          answer |-> [@.answer EXCEPT ![api] = answer]]]

\* the locals of a sync_secrets call are dropped when the caller has its result
Forget(p) ==
    /\ pc' = [pc EXCEPT ![p] = "idle"]
    /\ secrets' = [secrets EXCEPT ![p] = NoSecrets]
    /\ string_data' = [string_data EXCEPT ![p] = EmptyData]
    /\ calls' = [calls EXCEPT ![p] = NoCalls]
    /\ err' = [err EXCEPT ![p] = "none"]
    /\ result' = [result EXCEPT ![p] = "none"]

\* entry of sync_secrets (lines 200-202)
EnterSync(p) ==
    /\ pc' = [pc EXCEPT ![p] = "fetch"]
    /\ UNCHANGED <<secrets, string_data, calls, err, result>>

(***************************************************************************)
(* fetch_gcp_secret (lines 93-112)                                         *)
(***************************************************************************)
\* an exception leaves fetch_gcp_secret: logged and re-raised (lines 110-112)
FetchFailureReturnsEmpty(p, e) ==
    /\ err' = [err EXCEPT ![p] = e]
    /\ pc' = [pc EXCEPT ![p] = "update"]
    /\ secrets' = [secrets EXCEPT ![p] = [kind |-> "dict", items |-> <<>>]]
FetchFailure(p, e) ==
    /\ err' = [err EXCEPT ![p] = e]
    /\ pc' = [pc EXCEPT ![p] = "raised"]
    /\ UNCHANGED secrets

\* line 96 when the client is missing; otherwise the call of line 102 raises,
\* or the payload is not UTF-8, not JSON, or a JSON value without a len()
FetchRaises(p) ==
    /\ Runs(p) /\ pc[p] = "fetch"
    /\ IF secret_client
       THEN /\ calls' = Called(p, "fetch", "error")
            /\ \E e \in {"SourceFetchError", "SourceDecodeError"} : FetchFailure(p, e)
            /\ loop' = LoopAfterCall(p)
       ELSE /\ FetchFailure(p, "SourceUnavailable")
            /\ loop' = p
            /\ UNCHANGED calls
    /\ UNCHANGED <<appVars, string_data, result, dest, h>>

FetchOk(p) ==
    /\ Runs(p) /\ pc[p] = "fetch"
    /\ secret_client
    /\ calls' = Called(p, "fetch", "ok")
    /\ \E s \in Dicts \cup {JsonList, JsonString} : secrets' = [secrets EXCEPT ![p] = s]
    /\ pc' = [pc EXCEPT ![p] = "update"]
    /\ loop' = LoopAfterCall(p)
    /\ UNCHANGED <<appVars, string_data, err, result, dest, h>>

fetch_gcp_secret(p) ==
    \/ FetchRaises(p)
    \/ FetchOk(p)

(***************************************************************************)
(* update_k8s_secret (lines 141-195)                                       *)
(***************************************************************************)
\* an exception leaves update_k8s_secret: logged and re-raised (lines 193-195)
UpdateFailureRetries(p, e) ==
    /\ err' = [err EXCEPT ![p] = e]
    /\ pc' = [pc EXCEPT ![p] = "read"]
UpdateFailure(p, e) ==
    /\ err' = [err EXCEPT ![p] = e]
    /\ pc' = [pc EXCEPT ![p] = "raised"]

\* line 144 when the client is missing; line 149 on a value that has no
\* items() raises AttributeError
UpdateRaises(p) ==
    /\ Runs(p) /\ pc[p] = "update"
    /\ IF k8s_core_v1
       THEN /\ secrets[p].kind # "dict"
            /\ UpdateFailure(p, "NotAMapping")
       ELSE UpdateFailure(p, "SinkUnavailable")
    /\ loop' = p
    /\ UNCHANGED <<appVars, secrets, string_data, calls, result, dest, h>>

\* lines 148-153 on a dict
Normalize(p) ==
    /\ Runs(p) /\ pc[p] = "update"
    /\ k8s_core_v1
    /\ secrets[p].kind = "dict"
    /\ string_data' = [string_data EXCEPT ![p] = StringData(secrets[p].items)]
    /\ pc' = [pc EXCEPT ![p] = "read"]
    /\ loop' = p
    /\ UNCHANGED <<appVars, secrets, calls, err, result, dest, h>>

\* the branch taken when a call inside the try of lines 156-171 raises
\* ApiException with status 404: the except clause of line 173 covers the
\* read and the patch alike
OnNotFoundRaise(p) == UpdateFailure(p, "SinkApplyError")
OnNotFound(p) ==
    /\ pc' = [pc EXCEPT ![p] = "create"]
    /\ UNCHANGED err

\* line 157: the object is there
ReadFound(p) ==
    /\ Runs(p) /\ pc[p] = "read"
    /\ dest.exists
    /\ calls' = Called(p, "read", "ok")
    /\ pc' = [pc EXCEPT ![p] = "patch"]
    /\ loop' = LoopAfterCall(p)
    /\ UNCHANGED <<appVars, secrets, string_data, err, result, dest, h>>

\* line 157 or line 166 raises ApiException(404): the object is not there, or
\* was deleted after the read
ApiNotFound(p) ==
    /\ Runs(p) /\ pc[p] \in {"read", "patch"}
    /\ ~dest.exists
    /\ calls' = Called(p, pc[p], "not_found")
    /\ OnNotFound(p)
    /\ loop' = LoopAfterCall(p)
    /\ UNCHANGED <<appVars, secrets, string_data, result, dest, h>>

\* line 157 raises another error (lines 189-190)
ReadError(p) ==
    /\ Runs(p) /\ pc[p] = "read"
    /\ calls' = Called(p, "read", "error")
    /\ UpdateFailure(p, "SinkApplyError")
    /\ loop' = LoopAfterCall(p)
    /\ UNCHANGED <<appVars, secrets, string_data, result, dest, h>>

\* lines 163-171
PatchOk(p) ==
    /\ Runs(p) /\ pc[p] = "patch"
    /\ dest.exists
    /\ calls' = Called(p, "patch", "ok")
    /\ dest' = [dest EXCEPT !.data = PatchedData(dest.data, string_data[p])]
    /\ pc' = [pc EXCEPT ![p] = "updated"]
    /\ loop' = LoopAfterCall(p)
    /\ UNCHANGED <<appVars, secrets, string_data, err, result, h>>

\* line 166 raises another error
PatchError(p) ==
    /\ Runs(p) /\ pc[p] = "patch"
    /\ calls' = Called(p, "patch", "error")
    /\ UpdateFailure(p, "SinkApplyError")
    /\ loop' = LoopAfterCall(p)
    /\ UNCHANGED <<appVars, secrets, string_data, result, dest, h>>

\* lines 176-188
CreateOk(p) ==
    /\ Runs(p) /\ pc[p] = "create"
    /\ ~dest.exists
    /\ calls' = Called(p, "create", "ok")
    /\ dest' = [exists |-> TRUE, data |-> CreatedData(string_data[p])]
    /\ pc' = [pc EXCEPT ![p] = "updated"]
    /\ loop' = LoopAfterCall(p)
    /\ UNCHANGED <<appVars, secrets, string_data, err, result, h>>

\* line 184 raises (409 when the object exists by now, or another error)
CreateError(p) ==
    /\ Runs(p) /\ pc[p] = "create"
    /\ calls' = Called(p, "create", "error")
    /\ UpdateFailure(p, "SinkApplyError")
    /\ loop' = LoopAfterCall(p)
    /\ UNCHANGED <<appVars, secrets, string_data, result, dest, h>>

update_k8s_secret(p) ==
    \/ UpdateRaises(p)
    \/ Normalize(p)
    \/ ReadFound(p)
    \/ ApiNotFound(p)
    \/ ReadError(p)
    \/ PatchOk(p)
    \/ PatchError(p)
    \/ CreateOk(p)
    \/ CreateError(p)

(***************************************************************************)
(* sync_secrets (lines 198-208)                                            *)
(***************************************************************************)
\* the exceptions that "except Exception" of line 206 catches
CaughtSourceOnly(e) == e \in FetchErrors
Caught(e) == TRUE

\* lines 204-205
SyncReturnTrue(p) ==
    /\ Runs(p) /\ pc[p] = "updated"
    /\ result' = [result EXCEPT ![p] = "true"]
    /\ pc' = [pc EXCEPT ![p] = "returned"]
    /\ loop' = p
    /\ UNCHANGED <<appVars, secrets, string_data, calls, err, dest, h>>

\* lines 206-208; an exception that is not caught leaves sync_secrets
SyncReturnFalse(p) ==
    /\ Runs(p) /\ pc[p] = "raised"
    /\ IF Caught(err[p])
       THEN /\ result' = [result EXCEPT ![p] = "false"]
            /\ pc' = [pc EXCEPT ![p] = "returned"]
       ELSE /\ pc' = [pc EXCEPT ![p] = "escaped"]
            /\ UNCHANGED result
    /\ loop' = p
    /\ UNCHANGED <<appVars, secrets, string_data, calls, err, dest, h>>

sync_secrets(p) ==
    \/ fetch_gcp_secret(p)
    \/ update_k8s_secret(p)
    \/ SyncReturnTrue(p)
    \/ SyncReturnFalse(p)

(***************************************************************************)
(* periodic_sync (lines 211-219), run as the task sync_task                *)
(***************************************************************************)
\* whether "except Exception" of line 217 catches asyncio.CancelledError
\* (a BaseException since Python 3.8)
CatchesCancelledAsException == TRUE
CatchesCancelled == FALSE

\* what periodic_sync does with a cycle that returned "false" (line 215 drops
\* the result and goes on to the sleep of line 216)
StopsOnFailure(r) == r = "false"
StopsOn(r) == FALSE

\* the sleep the task enters after a call of sync_secrets: the interval of line
\* 216 when the call returned, the 60 s of line 219 when it raised an Exception
SleepAfterAlwaysInterval(outcome) == "sleeping"
SleepAfter(outcome) == IF outcome = "escaped" THEN "backoff" ELSE "sleeping"

\* first step of the task: line 215
SchedStart ==
    /\ sync_task = "created" /\ loop = "free" /\ ~cancel_requested
    /\ sync_task' = "running"
    /\ EnterSync("sched")
    /\ loop' = "sched"
    /\ UNCHANGED <<secret_client, k8s_core_v1, cancel_requested, timer_fired,
                   last_result,
                   lifespan_pc, api_token, request, status, dest, h>>

\* lines 216-219: sync_secrets returned and the task sleeps the interval; had
\* it raised, the task would sleep the 60 s back-off instead
SchedSleep ==
    /\ Runs("sched") /\ pc["sched"] \in {"returned", "escaped"}
    /\ sync_task' = IF StopsOn(result["sched"]) THEN "finished"
                    ELSE SleepAfter(pc["sched"])
    /\ timer_fired' = FALSE
    /\ last_result' = IF pc["sched"] = "escaped" THEN "raised" ELSE result["sched"]
    /\ Forget("sched")
    /\ loop' = "free"
    /\ UNCHANGED <<secret_client, k8s_core_v1, cancel_requested, lifespan_pc,
                   api_token, request, status, dest, h>>

\* the timer of asyncio.sleep expires
TimerFires ==
    /\ sync_task \in {"sleeping", "backoff"} /\ ~timer_fired
    /\ timer_fired' = TRUE
    /\ UNCHANGED <<secret_client, k8s_core_v1, sync_task, cancel_requested, last_result,
                   lifespan_pc, api_token, loop, cycleVars, request, status, dest, h>>

\* the sleep returns and the loop of line 213 calls sync_secrets again
SchedWake ==
    /\ sync_task \in {"sleeping", "backoff"} /\ timer_fired
    /\ loop = "free" /\ ~cancel_requested
    /\ sync_task' = "running"
    /\ timer_fired' = FALSE
    /\ EnterSync("sched")
    /\ loop' = "sched"
    /\ UNCHANGED <<secret_client, k8s_core_v1, cancel_requested, last_result, lifespan_pc,
                   api_token, request, status, dest, h>>

\* the task stands at an await (or before its first step)
Suspended ==
    \/ sync_task \in {"created", "sleeping", "backoff"}
    \/ sync_task = "running" /\ loop # "sched"

\* the task is resumed after sync_task.cancel(): CancelledError is thrown into
\* it at the await where it stands; neither line 206 nor line 217 catches it
SchedCancelled ==
    /\ Suspended /\ cancel_requested
    /\ loop = "free"
    /\ IF sync_task = "sleeping" /\ CatchesCancelled
       THEN /\ sync_task' = "backoff"
            /\ cancel_requested' = FALSE
       ELSE /\ sync_task' = "cancelled"
            /\ UNCHANGED cancel_requested
    /\ timer_fired' = FALSE
    /\ UNCHANGED <<secret_client, k8s_core_v1, last_result, lifespan_pc, api_token, loop,
                   cycleVars, request, status, dest, h>>

periodic_sync ==
    \/ SchedStart
    \/ sync_secrets("sched")
    \/ SchedSleep
    \/ SchedWake
    \/ SchedCancelled

(***************************************************************************)
(* lifespan (lines 222-250)                                                *)
(***************************************************************************)
\* lines 228 and 232: startup goes on only when the init function returned True
ProceedsAnyway(ok) == TRUE
Proceeds(ok) == ok

\* lines 249-250: the CancelledError of the joined task is swallowed
ToleratesCancelled == TRUE

\* lines 228-230 with init_gcp_client (lines 59-70)
InitGcp(ok) ==
    /\ lifespan_pc = "startup"
    /\ secret_client' = ok
    /\ lifespan_pc' = IF Proceeds(ok) THEN "gcp_ready" ELSE "failed"
    /\ UNCHANGED <<k8s_core_v1, sync_task, cancel_requested, timer_fired, last_result, api_token,
                   loop, cycleVars, request, status, dest, h>>

\* lines 232-241 with init_k8s_client (lines 73-90): the task is created and
\* the application starts serving
InitK8s(ok) ==
    /\ lifespan_pc = "gcp_ready"
    /\ k8s_core_v1' = ok
    /\ IF Proceeds(ok)
       THEN /\ sync_task' = "created"
            /\ lifespan_pc' = "serving"
       ELSE /\ lifespan_pc' = "failed"
            /\ UNCHANGED sync_task
    /\ UNCHANGED <<secret_client, cancel_requested, timer_fired, last_result, api_token, loop,
                   cycleVars, request, status, dest, h>>

\* lifespan is a coroutine of the same event loop: it is resumed after the
\* yield of line 241 only when no other coroutine is running
LifespanResumedAnytime == TRUE
LifespanResumed == loop = "free"

\* lines 244-248: cancel the task and wait for it
Shutdown ==
    /\ lifespan_pc = "serving" /\ LifespanResumed
    /\ cancel_requested' = (sync_task # "none")
    /\ lifespan_pc' = "joining"
    /\ UNCHANGED <<secret_client, k8s_core_v1, sync_task, timer_fired, last_result, api_token,
                   loop, cycleVars, request, status, dest, h>>

\* lines 248-250: the awaited task has ended
JoinDone ==
    /\ lifespan_pc = "joining" /\ LifespanResumed
    /\ sync_task \in {"cancelled", "finished"}
    /\ lifespan_pc' = IF sync_task = "finished" \/ ToleratesCancelled
                      THEN "exited" ELSE "crashed"
    /\ UNCHANGED <<secret_client, k8s_core_v1, sync_task, cancel_requested,
                   timer_fired, last_result, api_token, loop, cycleVars, request, status, dest, h>>

lifespan ==
    \/ \E ok \in BOOLEAN : InitGcp(ok)
    \/ \E ok \in BOOLEAN : InitK8s(ok)
    \/ Shutdown
    \/ JoinDone

(***************************************************************************)
(* manual_sync (lines 316-360)                                             *)
(***************************************************************************)
NoToken == <<>>
Token == <<"s">>
NoHeader == [given |-> FALSE, text |-> <<>>]
Header(text) == [given |-> TRUE, text |-> text]
\* the Authorization headers the model sends; "Bearer " is one symbol
Headers == {NoHeader, Header(<<>>), Header(<<"s">>), Header(<<" ", "s">>),
            Header(<<"Bearer ", "s">>), Header(<<"x">>), Header(<<"Bearer ", "x">>),
            Header(<<"Bearer ", "Bearer ", "s">>)}
NoRequest == [pending |-> FALSE, header |-> NoHeader]
Pending == [pending |-> TRUE, header |-> NoHeader]

RECURSIVE LStripSpaces(_)
LStripSpaces(s) == IF s # <<>> /\ Head(s) = " " THEN LStripSpaces(Tail(s)) ELSE s
RECURSIVE RStripSpaces(_)
RStripSpaces(s) ==
    IF s # <<>> /\ s[Len(s)] = " " THEN RStripSpaces(SubSeq(s, 1, Len(s) - 1)) ELSE s
IsNotBearer(c) == c # "Bearer "

\* line 329
ExtractToken(text) ==
    IF text # <<>> /\ Head(text) = "Bearer "
    THEN RStripSpaces(LStripSpaces(SelectSeq(text, IsNotBearer)))
    ELSE RStripSpaces(LStripSpaces(text))

\* lines 320-336: the status the gate answers with, 0 when it lets the request in
Gate(header) ==
    IF api_token = NoToken THEN 0
    ELSE IF ~header.given \/ header.text = <<>> THEN 401
    ELSE IF ExtractToken(header.text) # api_token THEN 403
    ELSE 0

\* a response: its status code and the pieces of its detail (or message) text
NoResponse == [code |-> 0, detail |-> <<>>]
Response(code, detail) == [code |-> code, detail |-> detail]
\* lines 323-326 and 333-336
GateDetail(code) ==
    IF code = 401 THEN <<"Authorization header is required">> ELSE <<"Invalid token">>
\* lines 342-360: what the handler answers once the call of line 340 has ended;
\* str(e) of an exception is the text of its cause
SyncResponse(p) ==
    IF pc[p] = "escaped" THEN Response(500, <<"Sync failed: ", err[p]>>)
    ELSE IF result[p] = "true" THEN Response(200, <<"Secrets synced successfully">>)
    ELSE Response(500, <<"Secret sync failed. Check logs for details.">>)

\* a request to POST /api/sync reaches the server
RequestArrives(p) ==
    /\ lifespan_pc = "serving"
    /\ request[p] = NoRequest /\ pc[p] = "idle"
    /\ request' = [request EXCEPT ![p] = Pending]
    /\ UNCHANGED <<secret_client, k8s_core_v1, sync_task, cancel_requested,
                   timer_fired, last_result, lifespan_pc, api_token, loop, cycleVars, status, dest, h>>

\* line 317: the handler starts with the request's Authorization header
ManualSyncCalled(p) ==
    /\ lifespan_pc = "serving" /\ loop = "free"
    /\ request[p] = Pending /\ pc[p] = "idle"
    /\ \E hd \in Headers : request' = [request EXCEPT ![p] = [pending |-> TRUE, header |-> hd]]
    /\ pc' = [pc EXCEPT ![p] = "gate"]
    /\ loop' = p
    /\ UNCHANGED <<secret_client, k8s_core_v1, sync_task, cancel_requested,
                   timer_fired, last_result, lifespan_pc, api_token, secrets, string_data, calls,
                   err, result, status, dest, h>>

\* lines 320-336: the gate rejects the request
ManualSyncRejected(p) ==
    /\ loop = p /\ pc[p] = "gate"
    /\ Gate(request[p].header) # 0
    /\ status' = [status EXCEPT ![p] = Response(Gate(request[p].header),
                                                GateDetail(Gate(request[p].header)))]
    /\ pc' = [pc EXCEPT ![p] = "respond"]
    /\ UNCHANGED <<secret_client, k8s_core_v1, sync_task, cancel_requested,
                   timer_fired, last_result, lifespan_pc, api_token, loop, secrets, string_data,
                   calls, err, result, request, dest, h>>

\* lines 320-340: the gate lets the request in and sync_secrets is called
ManualSyncStart(p) ==
    /\ loop = p /\ pc[p] = "gate"
    /\ Gate(request[p].header) = 0
    /\ EnterSync(p)
    /\ request' = [request EXCEPT ![p] = Pending]
    /\ UNCHANGED <<secret_client, k8s_core_v1, sync_task, cancel_requested,
                   timer_fired, last_result, lifespan_pc, api_token, loop, status, dest, h>>

\* lines 342-360: the result of sync_secrets becomes the response
ManualSyncResult(p) ==
    /\ Runs(p) /\ pc[p] \in {"returned", "escaped"}
    /\ status' = [status EXCEPT ![p] = SyncResponse(p)]
    /\ pc' = [pc EXCEPT ![p] = "respond"]
    /\ loop' = p
    /\ UNCHANGED <<secret_client, k8s_core_v1, sync_task, cancel_requested,
                   timer_fired, last_result, lifespan_pc, api_token, secrets, string_data, calls,
                   err, result, request, dest, h>>

\* the handler ends and the response is sent
Respond(p) ==
    /\ loop = p /\ pc[p] = "respond"
    /\ Forget(p)
    /\ request' = [request EXCEPT ![p] = NoRequest]
    /\ status' = [status EXCEPT ![p] = NoResponse]
    /\ loop' = "free"
    /\ UNCHANGED <<secret_client, k8s_core_v1, sync_task, cancel_requested,
                   timer_fired, last_result, lifespan_pc, api_token, dest, h>>

manual_sync(p) ==
    \/ RequestArrives(p)
    \/ ManualSyncCalled(p)
    \/ ManualSyncRejected(p)
    \/ ManualSyncStart(p)
    \/ sync_secrets(p)
    \/ ManualSyncResult(p)
    \/ Respond(p)

(***************************************************************************)
(* health_check (lines 273-313): a coroutine without an await              *)
(***************************************************************************)
\* lines 284-294 and 298-308: the status reported for one client handle
CheckStatusOk(handle) == "ok"
CheckStatus(handle) == IF handle THEN "ok" ELSE "error"

\* lines 276-313: the overall status and the two checks; the code is always 200
HealthResponse ==
    Response(200, <<IF secret_client /\ k8s_core_v1 THEN "healthy" ELSE "unhealthy",
                    CheckStatus(secret_client), CheckStatus(k8s_core_v1)>>)

health_check ==
    /\ loop = "free" /\ status["hc"] = NoResponse
    /\ status' = [status EXCEPT !["hc"] = HealthResponse]
    /\ UNCHANGED <<secret_client, k8s_core_v1, sync_task, cancel_requested, timer_fired,
                   last_result, lifespan_pc, api_token, loop, cycleVars, request, dest, h>>

\* a request to GET /api/health is served
HealthRequest ==
    /\ lifespan_pc = "serving"
    /\ health_check

\* the response of health_check is sent
HealthRespond ==
    /\ status["hc"] # NoResponse
    /\ status' = [status EXCEPT !["hc"] = NoResponse]
    /\ UNCHANGED <<secret_client, k8s_core_v1, sync_task, cancel_requested, timer_fired,
                   last_result, lifespan_pc, api_token, loop, cycleVars, request, dest, h>>

(***************************************************************************)
(* Another client of the cluster deletes the destination object.           *)
(***************************************************************************)
ExternalDelete ==
    /\ dest.exists
    /\ dest' = NoObject
    /\ UNCHANGED <<appVars, loop, cycleVars, h>>

(***************************************************************************)
(* The application: startup, the periodic task, two requests, shutdown.    *)
(***************************************************************************)
NoRecord == [arg |-> NoSecrets, pre |-> NoObject, n |-> 0, ok |-> <<>>, after |-> <<>>]

\* an object left by an earlier run, with a key the source no longer has
StaleObject == [exists |-> TRUE, data |-> (<<"A">> :> "x")]

IdleCallers ==
    /\ pc = [p \in Callers |-> "idle"]
    /\ secrets = [p \in Callers |-> NoSecrets]
    /\ string_data = [p \in Callers |-> EmptyData]
    /\ calls = [p \in Callers |-> NoCalls]
    /\ err = [p \in Callers |-> "none"]
    /\ result = [p \in Callers |-> "none"]
    /\ request = [p \in Manuals |-> NoRequest]
    /\ status = [p \in Manuals \cup {"hc"} |-> NoResponse]
    /\ loop = "free"

\* the module is imported: lines 51-56
Init ==
    /\ secret_client = FALSE
    /\ k8s_core_v1 = FALSE
    /\ sync_task = "none"
    /\ cancel_requested = FALSE
    /\ timer_fired = FALSE
    /\ last_result = "none"
    /\ lifespan_pc = "startup"
    /\ api_token \in {NoToken, Token}
    /\ IdleCallers
    /\ dest \in {NoObject, StaleObject}
    /\ h = NoRecord

Next ==
    \/ lifespan
    \/ periodic_sync
    \/ TimerFires
    \/ \E p \in Manuals : manual_sync(p)
    \/ HealthRequest
    \/ HealthRespond
    \/ ExternalDelete

Spec == Init /\ [][Next]_vars

(***************************************************************************)
(* sync_secrets called directly, as a test of the module does: the globals *)
(* of lines 54-55 are whatever the caller left there.                      *)
(***************************************************************************)
InitDirect ==
    /\ secret_client \in BOOLEAN
    /\ k8s_core_v1 \in BOOLEAN
    /\ sync_task = "none"
    /\ cancel_requested = FALSE
    /\ timer_fired = FALSE
    /\ last_result = "none"
    /\ lifespan_pc = "startup"
    /\ api_token = NoToken
    /\ IdleCallers
    /\ dest \in DestObjects

InitCycle == InitDirect /\ h = NoRecord

CallSync ==
    /\ pc["t"] = "idle" /\ loop = "free"
    /\ EnterSync("t")
    /\ loop' = "t"
    /\ h' = [h EXCEPT !.pre = dest]
    /\ UNCHANGED <<appVars, dest>>

SyncDone ==
    /\ loop = "t" /\ pc["t"] \in {"returned", "escaped"}
    /\ Forget("t")
    /\ loop' = "free"
    /\ UNCHANGED <<appVars, dest, h>>

\* health_check called directly between two calls of sync_secrets
CallHealth ==
    /\ pc["t"] = "idle"
    /\ health_check

NextCycle ==
    \/ CallSync
    \/ sync_secrets("t")
    \/ SyncDone
    \/ CallHealth
    \/ HealthRespond

SpecCycle == InitCycle /\ [][NextCycle]_vars

(***************************************************************************)
(* update_k8s_secret called directly MaxCalls times in a row with the same *)
(* bundle, and nobody else writing the destination object.                 *)
(***************************************************************************)
InitSink ==
    /\ InitDirect
    /\ \E d \in Dicts : h = [NoRecord EXCEPT !.arg = d]

CallUpdate ==
    /\ pc["t"] = "idle" /\ loop = "free"
    /\ h.n < MaxCalls
    /\ pc' = [pc EXCEPT !["t"] = "update"]
    /\ secrets' = [secrets EXCEPT !["t"] = h.arg]
    /\ loop' = "t"
    /\ h' = [h EXCEPT !.pre = IF h.n = 0 THEN dest ELSE @]
    /\ UNCHANGED <<appVars, string_data, calls, err, result, dest>>

\* the call returned True (line 192) or raised (line 195)
UpdateDone ==
    /\ loop = "t" /\ pc["t"] \in {"updated", "raised"}
    /\ h' = [h EXCEPT !.n = @ + 1,
                      !.ok = Append(@, pc["t"] = "updated"),
                      !.after = Append(@, dest)]
    /\ Forget("t")
    /\ loop' = "free"
    /\ UNCHANGED <<appVars, dest>>

NextSink ==
    \/ CallUpdate
    \/ update_k8s_secret("t")
    \/ UpdateDone

SpecSink == InitSink /\ [][NextSink]_vars

(***************************************************************************)
(* normalize_secret_key called directly on a key, and once more on its     *)
(* own result.                                                             *)
(***************************************************************************)
InitNorm ==
    /\ secret_client = FALSE
    /\ k8s_core_v1 = FALSE
    /\ sync_task = "none"
    /\ cancel_requested = FALSE
    /\ timer_fired = FALSE
    /\ last_result = "none"
    /\ lifespan_pc = "startup"
    /\ api_token = NoToken
    /\ IdleCallers
    /\ dest = NoObject
    /\ \E k \in Keys : h = [key |-> k, n |-> 0, out |-> <<>>, again |-> <<>>]

CallNormalize ==
    /\ h.n = 0
    /\ h' = [h EXCEPT !.n = 1, !.out = normalize_secret_key(h.key)]
    /\ UNCHANGED <<appVars, loop, cycleVars, dest>>

CallNormalizeAgain ==
    /\ h.n = 1
    /\ h' = [h EXCEPT !.n = 2, !.again = normalize_secret_key(h.out)]
    /\ UNCHANGED <<appVars, loop, cycleVars, dest>>

NextNorm ==
    \/ CallNormalize
    \/ CallNormalizeAgain

SpecNorm == InitNorm /\ [][NextNorm]_vars

(***************************************************************************)
(* The periodic task and lifespan under the scheduling asyncio gives: a    *)
(* timer expires, and a coroutine that is ready to run gets the event      *)
(* loop.  Nothing is assumed about a client call returning.                *)
(***************************************************************************)
Fairness ==
    /\ WF_vars(TimerFires)
    /\ WF_vars(SchedStart \/ SchedSleep \/ SchedWake \/ SchedCancelled)
    /\ WF_vars(JoinDone)

\* the application without clients of /api/sync
NextLive ==
    \/ lifespan
    \/ periodic_sync
    \/ TimerFires
    \/ ExternalDelete

LiveSpec == Init /\ [][NextLive]_vars /\ Fairness

(***************************************************************************)
(* The periodic task when the handler of lines 206-208 itself raises (the  *)
(* logging call of line 207 fails): the Exception leaves sync_secrets.     *)
(***************************************************************************)
HandlerRaises ==
    /\ Runs("sched") /\ pc["sched"] = "raised"
    /\ pc' = [pc EXCEPT !["sched"] = "escaped"]
    /\ loop' = "sched"
    /\ UNCHANGED <<appVars, secrets, string_data, calls, err, result, dest, h>>

NextBackoff ==
    \/ NextLive
    \/ HandlerRaises

SpecBackoff == Init /\ [][NextBackoff]_vars /\ Fairness

(***************************************************************************)
(* Properties                                                              *)
(***************************************************************************)
UpdateEnded(p) == pc[p] \in {"updated", "raised", "returned", "escaped"}

\* C1: when the object exists and the first update_k8s_secret(New) returns
\* True, the object's content is exactly the normalized bundle: every key of
\* the old content that New does not have is gone.
FullReplace ==
    (h.n >= 1 /\ h.ok[1] /\ h.pre.exists) => h.after[1].data = StringData(h.arg.items)

\* C1 witness: the object held the keys A and B, the bundle has only B, and
\* the call returned True with A still in the object
StaleKeySurvives ==
    /\ h.n >= 1 /\ h.ok[1]
    /\ h.pre.exists /\ DOMAIN h.pre.data = {<<"A">>, <<"B">>}
    /\ h.arg.items = <<<< <<"B">>, IntValue(7) >>>>
    /\ h.after[1].data = (<<"A">> :> h.pre.data[<<"A">>]) @@ (<<"B">> :> "7")

\* C2: once a call of update_k8s_secret(B) has returned True, every later call
\* with the same B (no other writer in between) leaves the destination as that
\* call left it.
SinkIdempotent ==
    \A i, j \in 1..h.n : (i < j /\ h.ok[i]) => h.after[j] = h.after[i]

\* C2 witness: two calls returned True and the first one changed the object
SinkIdempotentWitness ==
    /\ h.n = 2 /\ h.ok[1] /\ h.ok[2]
    /\ h.pre.exists /\ h.pre # h.after[1]
    /\ h.after[2] = h.after[1]

\* C3 as stated: a read that signals not-found is followed by exactly one
\* create and no patch; a read that finds the object by exactly one patch and
\* no create, whatever the write answers.
CreateOrPatchOnly ==
    \A p \in Callers : UpdateEnded(p) =>
        /\ calls[p].answer.read = "not_found" =>
               (calls[p].n.create = 1 /\ calls[p].n.patch = 0)
        /\ calls[p].answer.read = "ok" =>
               (calls[p].n.patch = 1 /\ calls[p].n.create = 0)

\* C3 amended: a read that signals not-found is followed by exactly one create
\* and no patch; a read that finds the object by exactly one patch, and by one
\* create exactly when that patch itself signals not-found.
CreateOrPatch ==
    \A p \in Callers : UpdateEnded(p) =>
        /\ calls[p].n.read <= 1
        /\ calls[p].answer.read = "not_found" =>
               (calls[p].n.create = 1 /\ calls[p].n.patch = 0)
        /\ calls[p].answer.read = "ok" =>
               /\ calls[p].n.patch = 1
               /\ calls[p].n.create = IF calls[p].answer.patch = "not_found" THEN 1 ELSE 0

\* C3 witness: the object was deleted after the read, and the call created it
CreateOrPatchWitness ==
    \E p \in Callers :
        /\ pc[p] = "updated"
        /\ calls[p].answer.read = "ok" /\ calls[p].answer.patch = "not_found"
        /\ calls[p].n.create = 1 /\ dest.exists

\* C4: once fetch_gcp_secret has failed in a cycle, the cycle issues no sink
\* call, does not change the destination object and returns "false".
FetchFailureIsolated ==
    \A p \in Callers : err[p] \in FetchErrors =>
        /\ calls[p].n.read = 0 /\ calls[p].n.patch = 0 /\ calls[p].n.create = 0
        /\ dest = h.pre
        /\ pc[p] \in {"raised", "returned"}
        /\ pc[p] = "returned" => result[p] = "false"

\* C4 witness: a cycle whose payload could not be decoded has returned
FetchFailureIsolatedWitness ==
    /\ pc["t"] = "returned" /\ err["t"] = "SourceDecodeError"
    /\ result["t"] = "false" /\ calls["t"].n.fetch = 1
    /\ dest.exists /\ k8s_core_v1

\* C5: at most one cycle is in flight, counting the periodic task and the
\* manual requests together.
OneCycleInFlight == Cardinality({p \in Callers : InCycle(p)}) <= 1

\* C5 witness: a manual cycle stands between its read and its patch while the
\* periodic task's sleep has expired and a second request is waiting
OneCycleInFlightWitness ==
    /\ pc["m1"] = "patch"
    /\ request["m2"] = Pending /\ pc["m2"] = "idle"
    /\ sync_task = "sleeping" /\ timer_fired

\* C6: the periodic task ends only after a cancellation was requested, and
\* every cycle of the task that returned "false" is followed by another cycle
\* of the task unless a cancellation is requested.
SchedulerLiveness ==
    /\ [][sync_task' \in {"cancelled", "finished"} => cancel_requested]_vars
    /\ (pc["sched"] = "returned" /\ result["sched"] = "false")
           ~> (pc["sched"] = "fetch" \/ cancel_requested)

\* C6 witness: two cycles of the task in a row have returned "false"
SchedulerLivenessWitness ==
    /\ last_result = "false"
    /\ pc["sched"] = "returned" /\ result["sched"] = "false"
    /\ ~cancel_requested

\* C7: no error of a cycle leaves sync_secrets; a cycle in which an error was
\* raised returns "false".
EveryErrorConverted ==
    \A p \in Callers :
        /\ pc[p] # "escaped"
        /\ (pc[p] = "returned" /\ err[p] # "none") => result[p] = "false"
        /\ (pc[p] = "returned" /\ err[p] = "none") => result[p] = "true"

\* C7 witness: the sink client is missing and the cycle returned "false"
EveryErrorConvertedWitness ==
    /\ pc["t"] = "returned" /\ err["t"] = "SinkUnavailable" /\ result["t"] = "false"
    /\ secret_client /\ ~k8s_core_v1

\* C8: a cancellation is requested, and delivered, only while no cycle of the
\* periodic task is in flight: no cycle is cut between its calls.
CancelSparesCycle ==
    (cancel_requested \/ sync_task = "cancelled") => pc["sched"] = "idle"

\* C8 witness: the task was cancelled after a cycle of it had written the object
CancelSparesCycleWitness ==
    /\ sync_task = "cancelled"
    /\ dest.exists /\ <<"B">> \in DOMAIN dest.data
    /\ \A p \in Manuals : request[p] = NoRequest

\* C9: once lifespan has cancelled the task, the task starts no cycle, and
\* eventually the task has ended cancelled and lifespan's join has returned
\* without an error.
PromptCancellation ==
    /\ [][lifespan_pc # "serving" => ~(pc["sched"] = "idle" /\ pc'["sched"] # "idle")]_vars
    /\ (lifespan_pc = "joining") ~> (sync_task = "cancelled" /\ lifespan_pc = "exited")

\* C9 witness: the task was cancelled in the sleep that followed a cycle, and
\* the join has returned
PromptCancellationWitness ==
    /\ sync_task = "cancelled" /\ lifespan_pc = "exited"
    /\ last_result # "none" /\ pc["sched"] = "idle"

\* C10: the task exists, and the application serves, only with both clients
\* initialized.
StartupFatal ==
    (sync_task # "none" \/ lifespan_pc \in {"serving", "joining", "exited", "crashed"})
        => (secret_client /\ k8s_core_v1)

\* C10 witness: the application serves and the task sleeps
StartupFatalWitness ==
    /\ lifespan_pc = "serving" /\ sync_task = "sleeping"
    /\ secret_client /\ k8s_core_v1
\* C11: a request whose cycle failed is answered 500 with a detail that holds
\* the cause text of the cycle's error, and the request ran one cycle only
\* (one fetch, at most one read, patch and create).
ManualFailureCarriesCause ==
    \A p \in Manuals :
        (pc[p] = "respond" /\ err[p] # "none") =>
            /\ status[p].code = 500
            /\ \E i \in DOMAIN status[p].detail : status[p].detail[i] = err[p]
            /\ \A a \in Apis : calls[p].n[a] <= 1

\* C11 witness: the sink write failed and the request is answered with the
\* fixed text that names no cause
ManualFailureHidesCause ==
    /\ pc["m1"] = "respond" /\ err["m1"] = "SinkApplyError"
    /\ calls["m1"].answer.patch = "error"
    /\ status["m1"] = Response(500, <<"Secret sync failed. Check logs for details.">>)
\* C12 as stated: the result is never empty, holds only characters of
\* [A-Za-z0-9._-], and is INVALID_KEY exactly when the steps before the
\* fallback leave nothing.
NormalizerTotalExactly ==
    h.n >= 1 =>
        /\ h.out # <<>>
        /\ \A i \in DOMAIN h.out : h.out[i] \in ValidChars
        /\ h.out = INVALID_KEY <=> valid_key(h.key) = <<>>

\* C12 amended: the result is never empty, holds only characters of
\* [A-Za-z0-9._-], is INVALID_KEY whenever the steps before the fallback leave
\* nothing, and otherwise is what those steps left (which can itself be the
\* text INVALID_KEY).
NormalizerTotal ==
    h.n >= 1 =>
        /\ h.out # <<>>
        /\ \A i \in DOMAIN h.out : h.out[i] \in ValidChars
        /\ valid_key(h.key) = <<>> => h.out = INVALID_KEY
        /\ valid_key(h.key) # <<>> => h.out = valid_key(h.key)

\* C12 witness: the key is the text of the fallback, and the result is that
\* text although the steps before the fallback left something
NormalizerTotalWitness ==
    /\ h.n >= 1 /\ h.key = INVALID_KEY
    /\ h.out = INVALID_KEY /\ valid_key(h.key) # <<>>

\* C13: health_check answers 200 and reports a client "ok" exactly when its
\* handle is set, and the step that produces the report issues no remote call
\* and changes neither the handles, the task, the callers nor the destination.
HealthSnapshot ==
    /\ [](status["hc"] # NoResponse =>
            /\ status["hc"].code = 200
            /\ status["hc"].detail[2] = "ok" <=> secret_client
            /\ status["hc"].detail[3] = "ok" <=> k8s_core_v1)
    /\ [][status["hc"] = NoResponse /\ status'["hc"] # NoResponse => UNCHANGED <<secret_client, k8s_core_v1, sync_task, cancel_requested, timer_fired, last_result, lifespan_pc, loop, cycleVars, dest>>]_vars

\* C13 witness: the sink handle is missing, the object exists, and the report
\* says so
HealthSnapshotWitness ==
    /\ status["hc"] = Response(200, <<"unhealthy", "ok", "error">>)
    /\ secret_client /\ ~k8s_core_v1 /\ dest.exists

\* the call in progress of p issues no remote call in this step
NoFurtherCall(p) == \A a \in Apis : calls'[p].n[a] <= calls[p].n[a]

\* a sink call of the call in progress answered an error other than
\* not-found on the read
SinkFailed(p) ==
    \/ calls[p].answer.read = "error"
    \/ calls[p].answer.patch \in {"error", "not_found"}
    \/ calls[p].answer.create = "error"

\* a sink call of the call in progress answered an error other than
\* not-found on the read or on the patch
SinkFailedForGood(p) ==
    \/ calls[p].answer.read = "error"
    \/ calls[p].answer.patch = "error"
    \/ calls[p].answer.create = "error"

\* C14 as stated: after a sink error other than not-found on the read, the
\* cycle issues no further remote call and its result is "false".
SinkErrorAborts ==
    /\ [](\A p \in Callers : (SinkFailed(p) /\ pc[p] = "returned") => result[p] = "false")
    /\ [][\A p \in Callers : SinkFailed(p) => NoFurtherCall(p)]_vars

\* C14 amended: after a sink error other than not-found on the read or on the
\* patch, the cycle issues no further remote call and its result is "false";
\* no remote call is issued twice in one cycle.
SinkErrorAbortsCycle ==
    /\ [](\A p \in Callers :
            /\ (SinkFailedForGood(p) /\ pc[p] = "returned") => result[p] = "false"
            /\ SinkFailedForGood(p) => pc[p] \in {"raised", "returned", "respond"}
            /\ \A a \in Apis : calls[p].n[a] <= 1)
    /\ [][\A p \in Callers : SinkFailedForGood(p) => NoFurtherCall(p)]_vars

\* C14 witness: the read signalled not-found, the create failed, and the
\* task's cycle returned "false" after one call of each
SinkErrorAbortsCycleWitness ==
    /\ pc["sched"] = "returned" /\ result["sched"] = "false"
    /\ calls["sched"].answer.read = "not_found" /\ calls["sched"].answer.create = "error"
    /\ calls["sched"].n.read = 1 /\ calls["sched"].n.create = 1

\* C15: fetch_gcp_secret never returns a document whose top level is not a
\* key/value mapping: what a cycle holds as its bundle is a mapping.
FetchRejectsNonMapping ==
    \A p \in Callers : secrets[p].kind \in {"none", "dict"}

\* C15 witness: the fetch answered a list without an error, and the cycle then
\* failed in update_k8s_secret, after the fetch had returned
FetchReturnsList ==
    /\ pc["t"] = "returned" /\ result["t"] = "false"
    /\ secrets["t"] = JsonList /\ calls["t"].answer.fetch = "ok"
    /\ err["t"] = "NotAMapping"

\* the position of the last item of a bundle whose key normalizes to k
LastIndex(items, k) ==
    CHOOSE j \in DOMAIN items :
        /\ normalize_secret_key(items[j][1]) = k
        /\ \A i \in DOMAIN items : i > j => normalize_secret_key(items[i][1]) # k

\* d holds one entry per normalized key of the bundle, with the string form
\* of the value of the last item that normalizes to it
HoldsLastValues(d, items) ==
    \A i \in DOMAIN items :
        LET k == normalize_secret_key(items[i][1])
        IN k \in DOMAIN d /\ d[k] = str(items[LastIndex(items, k)][2])

\* C16: once update_k8s_secret has built string_data from a bundle, it holds
\* exactly one entry per normalized key, with the value of the later of the
\* keys that collide, and building it raised nothing.
LaterKeyWins ==
    pc["t"] \in {"read", "patch", "create", "updated"} =>
        /\ DOMAIN string_data["t"] =
               {normalize_secret_key(h.arg.items[i][1]) : i \in DOMAIN h.arg.items}
        /\ HoldsLastValues(string_data["t"], h.arg.items)
        /\ err["t"] = "none"

\* C16 witness: the keys B and B! collide, the call returned True and wrote
\* the value of B!
LaterKeyWinsWitness ==
    /\ pc["t"] = "updated"
    /\ h.arg.items = << <<(<<"B">>), StrValue("x")>>, <<(<<"B", "!">>), IntValue(7)>> >>
    /\ string_data["t"] = (<<"B">> :> "7")
    /\ dest.exists /\ dest.data[<<"B">>] = "7"

\* the task leaves a call of sync_secrets that raised, or one that returned
SleepsAfterRaise == pc["sched"] = "escaped" /\ pc'["sched"] = "idle"
SleepsAfterReturn == pc["sched"] = "returned" /\ pc'["sched"] = "idle"

\* C17: a call of sync_secrets that raised is followed by the back-off sleep
\* and one that returned by the interval sleep; the task never ends on its
\* own; and after a call that raised the task starts another cycle unless a
\* cancellation is requested.
BackoffThenRetry ==
    /\ [][SleepsAfterRaise => sync_task' = "backoff"]_vars
    /\ [][SleepsAfterReturn => sync_task' = "sleeping"]_vars
    /\ [](sync_task # "finished")
    /\ (pc["sched"] = "escaped") ~> (pc["sched"] = "fetch" \/ cancel_requested)

\* C17 witness: the task's previous call raised, the back-off has passed and
\* the next cycle has started and failed with a result
BackoffThenRetryWitness ==
    /\ last_result = "raised" /\ sync_task = "running"
    /\ pc["sched"] = "returned" /\ result["sched"] = "false"
    /\ ~cancel_requested

\* C18: when sync_secrets has returned "true" (and nobody else wrote the
\* object meanwhile), the destination object exists and maps the normalized
\* form of every key of the fetched bundle to the string form of the value of
\* the last key that normalizes to it.
SuccessConverges ==
    \A p \in Callers :
        (pc[p] = "returned" /\ result[p] = "true") =>
            /\ secrets[p].kind = "dict"
            /\ dest.exists
            /\ HoldsLastValues(dest.data, secrets[p].items)

\* C18 witness: the object held another value under B, the bundle's keys B
\* and B! collide, and the cycle returned "true" with the value of B!
SuccessConvergesWitness ==
    /\ pc["t"] = "returned" /\ result["t"] = "true"
    /\ secrets["t"].items = << <<(<<"B">>), StrValue("x")>>, <<(<<"B", "!">>), IntValue(7)>> >>
    /\ h.pre.exists /\ <<"B">> \in DOMAIN h.pre.data /\ h.pre.data[<<"B">>] = "x"
    /\ dest.data[<<"B">>] = "7"

\* the header presents the token: as it is, or after the prefix "Bearer ",
\* leaving surrounding blanks aside
Presents(header, token) ==
    /\ header.given
    /\ \/ RStripSpaces(LStripSpaces(header.text)) = token
       \/ /\ header.text # <<>> /\ Head(header.text) = "Bearer "
          /\ RStripSpaces(LStripSpaces(Tail(header.text))) = token

\* the gate lets the request of p in, or rejects it, in this step
GateAdmits(p) == pc[p] = "gate" /\ pc'[p] = "fetch"
GateRejects(p) == pc[p] = "gate" /\ pc'[p] = "respond"

\* C19: with a token configured, a request without a header is answered 401
\* and one that presents another token 403, both without a cycle or a remote
\* call; the gate lets a request in only when no token is configured or the
\* request presents the configured token, plain or after "Bearer ".
AuthorizationGate ==
    /\ [](\A p \in Manuals : status[p].code \in {401, 403} => calls[p] = NoCalls)
    /\ [][\A p \in Manuals : GateRejects(p) => (api_token # NoToken /\ ~InCycle(p)' /\ status'[p].code = (IF request[p].header.given /\ request[p].header.text # <<>> THEN 403 ELSE 401))]_vars
    /\ [][\A p \in Manuals : GateAdmits(p) => (api_token = NoToken \/ Presents(request[p].header, api_token))]_vars

\* C19 witness: the token is s, the header is "Bearer Bearer s", and the gate
\* is about to let the request in
GateAdmitsOtherToken ==
    /\ api_token = Token /\ pc["m1"] = "gate"
    /\ request["m1"].header = Header(<<"Bearer ", "Bearer ", "s">>)
    /\ ~Presents(request["m1"].header, api_token)
    /\ Gate(request["m1"].header) = 0

\* C20: normalize_secret_key applied to its own result gives that result
\* again.
NormalizerIdempotent ==
    h.n = 2 => h.again = h.out

\* C20 witness: a key that the first application renamed is left alone by the
\* second
NormalizerIdempotentWitness ==
    /\ h.n = 2 /\ h.key = <<"_", "e_acute", "!">>
    /\ h.out = <<"e">> /\ h.again = <<"e">>
====
